---- MODULE Spec2Model ----
(***************************************************************************)
(* The local files navigation pane of the Markdown viewer                  *)
(* (widgets/navigation_panes/local_files.py).                              *)
(*                                                                         *)
(* Two parts are modelled:                                                 *)
(*   - FilteredDirectoryTree.filter_paths, a pure function over a list of  *)
(*     filesystem entries (specification FilterSpec);                      *)
(*   - LocalFiles, the pane that hosts the tree: compose, the chdir        *)
(*     coroutine with its two awaits, set_focus_within and the             *)
(*     FileSelected handler (specification Spec).                          *)
(*                                                                         *)
(* Data representation.                                                    *)
(*   A file name is a sequence of characters, so that startswith is        *)
(*   computed and not assumed.  A string that holds a path is the          *)
(*   sequence of its "/"-separated segments, an absolute one starting      *)
(*   with the segment "/".  A Path object is such a sequence in normal     *)
(*   form (no "" and no "." segment), which is what pathlib.Path builds.   *)
(*   An optional value (the result of getenv) is <<>> for None and <<v>>   *)
(*   for the value v.                                                      *)
(***************************************************************************)
EXTENDS Integers, Sequences, FiniteSets, TLC

VARIABLES
    env,        \* the HOME environment variable: <<>> unset, <<s>> set to s
    composed,   \* TRUE once compose has run
    trees,      \* the FilteredDirectoryTree children of the pane, in DOM order
    nextId,     \* identity of the next widget to be constructed
    removed,    \* identities of the trees that have been removed
    calls,      \* the chdir coroutines: slot -> frame
    focused,    \* identity of the focused widget, 0 for none
    posted,     \* the Goto messages posted so far, in order
    events,     \* the FileSelected events handled so far, in order
    last,       \* the operation that ran last and its outcome
    paths,      \* the argument of the last filter_paths call
    filtered    \* the result of the last filter_paths call

vars == <<env, composed, trees, nextId, removed, calls, focused, posted,
          events, last, paths, filtered>>

-----------------------------------------------------------------------------
(* Bounds of the model.                                                    *)

MaxPaths == 3       \* longest list handed to filter_paths
MaxCalls == 2       \* chdir coroutines that may be in flight together
MaxTrees == 3       \* trees constructed in one run
MaxEvents == 2      \* FileSelected events handled in one run

-----------------------------------------------------------------------------
(* Filesystem entries and filter_paths.                                    *)

\* str.startswith
startswith(s, prefix) ==
    /\ Len(s) >= Len(prefix)
    /\ SubSeq(s, 1, Len(prefix)) = prefix

Names == { <<"a">>, <<".", "a">>, <<"a", ".">> }

Kinds == {"dir", "file", "other"}

\* An entry: its name, what the filesystem says it is, and what
\* maybe_markdown answers for it.
Entries == [name : Names, kind : Kinds, md : BOOLEAN]

is_dir(path) == path.kind = "dir"

is_file(path) == path.kind = "file"

\* The imported heuristic; its answer is part of the input.
maybe_markdown(path) == path.md

\* visible without the is_file test: anything that looks like Markdown passes.
visible_without_is_file(path) ==
    \/ (~startswith(path.name, <<".">>) /\ is_dir(path))
    \/ maybe_markdown(path)

\* The condition of the comprehension.  Python's "and" binds tighter than
\* "or": (not hidden and is_dir) or (is_file and maybe_markdown).
visible(path) ==
    \/ (~startswith(path.name, <<".">>) /\ is_dir(path))
    \/ (is_file(path) /\ maybe_markdown(path))

RECURSIVE Reverse(_)
Reverse(s) == IF s = <<>> THEN <<>> ELSE Append(Reverse(Tail(s)), Head(s))

\* filter_paths building its result back to front.
filter_paths_reversed(ps) == Reverse(SelectSeq(ps, visible))

filter_paths(ps) == SelectSeq(ps, visible)

SeqsUpTo(S, n) == UNION { [1..k -> S] : k \in 0..n }

-----------------------------------------------------------------------------
(* Paths.                                                                  *)

\* pathlib.Path(s): drops the empty and the "." segments of s.
RECURSIVE PathOf(_)
PathOf(s) ==
    IF s = <<>> THEN <<>>
    ELSE IF Head(s) \in {"", "."} THEN PathOf(Tail(s))
    ELSE <<Head(s)>> \o PathOf(Tail(s))

\* Path / name
Join(path, name) == path \o <<name>>

\* The directories chdir is called with (Path objects).
Dirs == { <<"/", "docs">>, <<"/", "home">> }

\* The values HOME may have: unset, set to the empty string, set to a path.
HomeValues == { <<>>, << <<>> >>, << <<"/", "home">> >> }

\* Names of files a tree may report as selected.
FileNames == { "notes.md", "todo.md" }

-----------------------------------------------------------------------------
(* The toolkit operations the pane relies on.                              *)

\* os.getenv("HOME")
getenv == env

\* getenv("HOME", "."): the default replaces None only, an empty value stays.
OrElse_only_when_unset(opt, default) ==
    IF opt = <<>> THEN default ELSE opt[1]

\* Python's "x or default" for an optional string: None and "" are falsy.
OrElse(opt, default) ==
    IF opt = <<>> \/ opt[1] = <<>> THEN default ELSE opt[1]

\* The result of a query that matches nothing (NoMatches is raised).
NoMatches == [id |-> 0, root |-> <<>>]

\* DOMNode.query_one(type): the first matching child of the pane.
query_one(ts) == IF Len(ts) = 0 THEN NoMatches ELSE Head(ts)

\* Widget.remove(): the widget is detached from its parent at the call.
Detach(ts, t) == SelectSeq(ts, LAMBDA w : w.id # t.id)

\* Widget.mount(w): the widget is appended to the pane's children at the call.
Mount(ts, w) == Append(ts, w)

\* FilteredDirectoryTree(root)
FilteredDirectoryTree(id, root) == [id |-> id, root |-> root]

\* LocalFiles.Goto(location)
Goto(location) == [location |-> location]

-----------------------------------------------------------------------------
(* The pane.                                                               *)

Slots == 1..MaxCalls

IdleFrame == [pc |-> "idle", path |-> <<>>, old |-> 0, new |-> 0,
              overlap |-> FALSE]

InProgress(c) == calls[c].pc # "idle"

Op(op, ok, path, old, new, overlap) ==
    [op |-> op, ok |-> ok, path |-> path, old |-> old, new |-> new,
     overlap |-> overlap]

\* The state after LocalFiles.__init__: nothing is mounted yet.
Init ==
    /\ env \in HomeValues
    /\ composed = FALSE
    /\ trees = <<>>
    /\ nextId = 1
    /\ removed = {}
    /\ calls = [c \in Slots |-> IdleFrame]
    /\ focused = 0
    /\ posted = <<>>
    /\ events = <<>>
    /\ last = Op("init", TRUE, <<>>, 0, 0, FALSE)
    /\ paths = <<>>
    /\ filtered = <<>>

\* compose: yield FilteredDirectoryTree(getenv("HOME") or ".")
compose ==
    /\ ~composed
    /\ composed' = TRUE
    /\ trees' = Mount(trees, FilteredDirectoryTree(nextId, OrElse(getenv, <<".">>)))
    /\ nextId' = nextId + 1
    /\ last' = Op("compose", TRUE, <<>>, 0, nextId, FALSE)
    /\ UNCHANGED <<env, removed, calls, focused, posted, events, paths, filtered>>

\* Every call in flight, and the one that starts, learn that they overlap.
MarkOverlap(cs, c) ==
    [d \in Slots |->
        IF d # c /\ cs[d].pc # "idle" THEN [cs[d] EXCEPT !.overlap = TRUE]
        ELSE cs[d]]

\* chdir whose lookup is query(...) instead of query_one(...): nothing is
\* raised when no tree is mounted and the coroutine carries on.
chdir_begin_no_raise(c, path) ==
    /\ composed
    /\ ~InProgress(c)
    /\ nextId + Cardinality({d \in Slots : calls[d].pc = "awaitRemove"}) <= MaxTrees
    /\ LET t == query_one(trees)
           others == \E d \in Slots : d # c /\ InProgress(d)
       IN /\ trees' = Detach(trees, t)
          /\ removed' = IF t = NoMatches THEN removed ELSE removed \cup {t.id}
          /\ focused' = IF focused = t.id THEN 0 ELSE focused
          /\ calls' = [MarkOverlap(calls, c) EXCEPT ![c] =
                          [pc |-> "awaitRemove", path |-> path,
                           old |-> t.id, new |-> 0, overlap |-> others]]
          /\ last' = Op("chdir", TRUE, path, t.id, 0, others)
    /\ UNCHANGED <<env, composed, nextId, posted, events, paths, filtered>>

\* chdir that looks the tree up but never removes it.
chdir_begin_keep_old(c, path) ==
    /\ composed
    /\ ~InProgress(c)
    /\ nextId + Cardinality({d \in Slots : calls[d].pc = "awaitRemove"}) <= MaxTrees
    /\ LET t == query_one(trees)
           others == \E d \in Slots : d # c /\ InProgress(d)
       IN IF t = NoMatches
          THEN /\ last' = Op("chdir", FALSE, path, 0, 0, others)
               /\ calls' = MarkOverlap(calls, c)
          ELSE /\ calls' = [MarkOverlap(calls, c) EXCEPT ![c] =
                               [pc |-> "awaitRemove", path |-> path,
                                old |-> t.id, new |-> 0, overlap |-> others]]
               /\ last' = Op("chdir", TRUE, path, t.id, 0, others)
    /\ UNCHANGED <<env, composed, trees, removed, focused, nextId, posted,
                   events, paths, filtered>>

\* chdir, up to its first await: query_one(FilteredDirectoryTree).remove().
\* The lookup raises NoMatches when no tree is mounted and the coroutine
\* ends there; otherwise the tree found is detached and the coroutine
\* suspends until the removal has finished.
chdir_begin(c, path) ==
    /\ composed
    /\ ~InProgress(c)
    /\ nextId + Cardinality({d \in Slots : calls[d].pc = "awaitRemove"}) <= MaxTrees
    /\ LET t == query_one(trees)
           others == \E d \in Slots : d # c /\ InProgress(d)
       IN IF t = NoMatches
          THEN /\ last' = Op("chdir", FALSE, path, 0, 0, others)
               /\ calls' = MarkOverlap(calls, c)
               /\ UNCHANGED <<trees, removed, focused>>
          ELSE /\ trees' = Detach(trees, t)
               /\ removed' = removed \cup {t.id}
               /\ focused' = IF focused = t.id THEN 0 ELSE focused
               /\ calls' = [MarkOverlap(calls, c) EXCEPT ![c] =
                               [pc |-> "awaitRemove", path |-> path,
                                old |-> t.id, new |-> 0, overlap |-> others]]
               /\ last' = Op("chdir", TRUE, path, t.id, 0, others)
    /\ UNCHANGED <<env, composed, nextId, posted, events, paths, filtered>>

\* chdir that mounts the fresh tree on the default root, as compose does,
\* and not on the path it was given.
chdir_mount_default_root(c) ==
    /\ calls[c].pc = "awaitRemove"
    /\ trees' = Mount(trees, FilteredDirectoryTree(nextId, OrElse(getenv, <<".">>)))
    /\ nextId' = nextId + 1
    /\ calls' = [calls EXCEPT ![c].pc = "awaitMount", ![c].new = nextId]
    /\ last' = Op("mount", TRUE, calls[c].path, calls[c].old, nextId,
                  calls[c].overlap)
    /\ UNCHANGED <<env, composed, removed, focused, posted, events, paths, filtered>>

\* chdir, resumed after the removal: mount(FilteredDirectoryTree(path)).
\* The new tree joins the pane's children and the coroutine suspends until
\* the tree has been mounted.
chdir_mount(c) ==
    /\ calls[c].pc = "awaitRemove"
    /\ trees' = Mount(trees, FilteredDirectoryTree(nextId, calls[c].path))
    /\ nextId' = nextId + 1
    /\ calls' = [calls EXCEPT ![c].pc = "awaitMount", ![c].new = nextId]
    /\ last' = Op("mount", TRUE, calls[c].path, calls[c].old, nextId,
                  calls[c].overlap)
    /\ UNCHANGED <<env, composed, removed, focused, posted, events, paths, filtered>>

\* chdir that also asks the viewer to go to the new directory.
chdir_done_posts_goto(c) ==
    /\ calls[c].pc = "awaitMount"
    /\ calls' = [calls EXCEPT ![c] = IdleFrame]
    /\ posted' = Append(posted, Goto(calls[c].path))
    /\ last' = Op("chdir_done", TRUE, calls[c].path, calls[c].old,
                  calls[c].new, calls[c].overlap)
    /\ UNCHANGED <<env, composed, trees, nextId, removed, focused, events,
                   paths, filtered>>

\* chdir, resumed after the mount: the coroutine returns.
chdir_done(c) ==
    /\ calls[c].pc = "awaitMount"
    /\ calls' = [calls EXCEPT ![c] = IdleFrame]
    /\ last' = Op("chdir_done", TRUE, calls[c].path, calls[c].old,
                  calls[c].new, calls[c].overlap)
    /\ UNCHANGED <<env, composed, trees, nextId, removed, focused, posted,
                   events, paths, filtered>>

\* set_focus_within on a reference to the tree that compose created,
\* kept by the pane, instead of a fresh lookup.
set_focus_within_composed_tree ==
    /\ composed
    /\ focused' = 1
    /\ last' = Op("focus", TRUE, <<>>, 0, 1, FALSE)
    /\ UNCHANGED <<env, composed, trees, nextId, removed, calls, posted,
                   events, paths, filtered>>

\* set_focus_within: query_one(DirectoryTree).focus()
set_focus_within ==
    /\ composed
    /\ LET t == query_one(trees)
       IN IF t = NoMatches
          THEN /\ last' = Op("focus", FALSE, <<>>, 0, 0, FALSE)
               /\ UNCHANGED focused
          ELSE /\ focused' = t.id
               /\ last' = Op("focus", TRUE, <<>>, 0, t.id, FALSE)
    /\ UNCHANGED <<env, composed, trees, nextId, removed, calls, posted,
                   events, paths, filtered>>

\* The FileSelected events the mounted trees can send: a file under the
\* tree's root, not yet stopped.
FileSelected(path) == [path |-> path, stopped |-> FALSE]

SelectableEvents ==
    { FileSelected(Join(PathOf(trees[i].root), n)) :
        i \in 1..Len(trees), n \in FileNames }

\* The parent directory of a path.
Parent(path) == SubSeq(path, 1, Len(path) - 1)

\* The handler posting the directory of the selected file.
on_directory_tree_file_selected_parent(event) ==
    /\ composed
    /\ Len(events) < MaxEvents
    /\ events' = Append(events, [event EXCEPT !.stopped = TRUE])
    /\ posted' = Append(posted, Goto(Parent(PathOf(event.path))))
    /\ last' = Op("selected", TRUE, event.path, 0, 0, FALSE)
    /\ UNCHANGED <<env, composed, trees, nextId, removed, calls, focused,
                   paths, filtered>>

\* on_directory_tree_file_selected: event.stop();
\* post_message(Goto(Path(event.path)))
on_directory_tree_file_selected(event) ==
    /\ composed
    /\ Len(events) < MaxEvents
    /\ events' = Append(events, [event EXCEPT !.stopped = TRUE])
    /\ posted' = Append(posted, Goto(PathOf(event.path)))
    /\ last' = Op("selected", TRUE, event.path, 0, 0, FALSE)
    /\ UNCHANGED <<env, composed, trees, nextId, removed, calls, focused,
                   paths, filtered>>

Compose == compose

ChdirBegin == \E c \in Slots, path \in Dirs : chdir_begin(c, path)

ChdirMount == \E c \in Slots : chdir_mount(c)

ChdirDone == \E c \in Slots : chdir_done(c)

SetFocusWithin == set_focus_within

OnFileSelected == \E event \in SelectableEvents : on_directory_tree_file_selected(event)

Next ==
    \/ Compose
    \/ ChdirBegin
    \/ ChdirMount
    \/ ChdirDone
    \/ SetFocusWithin
    \/ OnFileSelected

Spec == Init /\ [][Next]_vars

-----------------------------------------------------------------------------
(* filter_paths on its own: the tree is handed a list of at most MaxPaths  *)
(* entries and answers with the filtered list.                             *)

FilterInit ==
    /\ env = <<>>
    /\ composed = FALSE
    /\ trees = <<>>
    /\ nextId = 1
    /\ removed = {}
    /\ calls = [c \in Slots |-> IdleFrame]
    /\ focused = 0
    /\ posted = <<>>
    /\ events = <<>>
    /\ last = Op("init", TRUE, <<>>, 0, 0, FALSE)
    /\ paths \in SeqsUpTo(Entries, MaxPaths)
    /\ filtered = <<>>

FilterPaths ==
    /\ last.op = "init"
    /\ filtered' = filter_paths(paths)
    /\ last' = Op("filter_paths", TRUE, <<>>, 0, 0, FALSE)
    /\ UNCHANGED <<env, composed, trees, nextId, removed, calls, focused,
                   posted, events, paths>>

FilterNext == FilterPaths

FilterSpec == FilterInit /\ [][FilterNext]_vars

-----------------------------------------------------------------------------
(* Properties.                                                             *)

hidden(path) == startswith(path.name, <<".">>)

FilterRan == last.op = "filter_paths"

InFiltered(path) == \E j \in 1..Len(filtered) : filtered[j] = path

MountedIds == { trees[i].id : i \in 1..Len(trees) }

\* s can be obtained from t by deleting elements.
RECURSIVE IsSubsequence(_, _)
IsSubsequence(s, t) ==
    IF s = <<>> THEN TRUE
    ELSE IF t = <<>> THEN FALSE
    ELSE IF Head(s) = Head(t) THEN IsSubsequence(Tail(s), Tail(t))
    ELSE IsSubsequence(s, Tail(t))

\* C1: no entry whose name starts with a dot is in the result of
\* filter_paths, be it a directory or a regular file and whatever
\* maybe_markdown answers for it.
C1_HiddenNeverIncluded ==
    FilterRan => \A j \in 1..Len(filtered) : ~hidden(filtered[j])

\* C2: an entry whose name does not start with a dot is in the result of
\* filter_paths exactly when it is a directory, or a regular file for which
\* maybe_markdown is true.
C2_NonHiddenRule ==
    FilterRan =>
        \A i \in 1..Len(paths) :
            ~hidden(paths[i]) =>
                (InFiltered(paths[i]) <=>
                    (paths[i].kind = "dir" \/ (paths[i].kind = "file" /\ paths[i].md)))

\* A call that met a non-hidden directory, a non-hidden file that is not
\* Markdown and a non-hidden entry that is neither, and kept only the first.
C2_Witness ==
    /\ FilterRan
    /\ Len(paths) = 3
    /\ \A i \in 1..3 : ~hidden(paths[i])
    /\ paths[1].kind = "file" /\ ~paths[1].md
    /\ paths[2].kind = "dir" /\ ~paths[2].md
    /\ paths[3].kind = "other" /\ paths[3].md
    /\ filtered = <<paths[2]>>

\* C3: the result of filter_paths is a subsequence of its argument: nothing
\* is added or duplicated and the relative order is kept.
C3_Subsequence == FilterRan => IsSubsequence(filtered, paths)

\* A call that dropped the middle one of three different entries.
C3_Witness ==
    /\ FilterRan
    /\ Len(paths) = 3
    /\ paths[1] # paths[3]
    /\ ~InFiltered(paths[2])
    /\ filtered = <<paths[1], paths[3]>>

ChdirPostcondition ==
    /\ Len(trees) = 1
    /\ trees[1].root = last.path
    /\ trees[1].id = last.new
    /\ last.old \notin MountedIds

\* C4 as stated: when a call chdir(p) completes, exactly one tree is mounted,
\* its root is p, and the tree mounted before the call is gone.
C4_Original == last.op = "chdir_done" => ChdirPostcondition

\* C4 amended: the same, for a call chdir(p) that no other chdir call
\* overlapped.
C4_Amended ==
    (last.op = "chdir_done" /\ ~last.overlap) => ChdirPostcondition

\* The second of two chdir calls made one after the other has completed.
C4_Witness ==
    /\ last.op = "chdir_done"
    /\ ~last.overlap
    /\ last.old = 2
    /\ removed = {1, 2}
    /\ trees = <<FilteredDirectoryTree(3, last.path)>>

\* C5: each FileSelected event handled posts exactly one Goto, whose location
\* is the path of the event, and the event is stopped.
C5_SelectionPostsGoto ==
    [][Len(events') = Len(events) + 1 =>
          /\ posted' = Append(posted, Goto(events'[Len(events')].path))
          /\ events'[Len(events')].stopped]_vars

\* notes.md was selected under the root /docs.
C5_Witness ==
    /\ last.op = "selected"
    /\ Len(trees) = 1
    /\ trees[1].root = <<"/", "docs">>
    /\ last.path = <<"/", "docs", "notes.md">>
    /\ posted[Len(posted)] = Goto(<<"/", "docs", "notes.md">>)
    /\ events[Len(events)].stopped

\* C6: a call of set_focus_within focuses the tree that is mounted at that
\* moment, never a removed one; between the remove and the mount of a chdir
\* there is no tree and the call focuses nothing.
C6_FocusTargetsMountedTree ==
    [][last'.op = "focus" =>
          IF Len(trees) = 0
          THEN ~last'.ok /\ focused' = focused
          ELSE /\ last'.ok
               /\ focused' = trees[1].id
               /\ focused' \in MountedIds
               /\ focused' \notin removed]_vars

\* Focus was given to the tree a chdir has mounted, the old one being gone.
C6_Witness ==
    /\ last.op = "focus"
    /\ last.ok
    /\ removed # {}
    /\ focused \in MountedIds
    /\ focused \notin removed
    /\ \E c \in Slots : calls[c].pc = "awaitMount" /\ calls[c].new = focused

\* C7: compose mounts exactly one tree; its root is the value of HOME when
\* HOME is set and not empty, and "." otherwise.
C7_ComposeRoot ==
    last.op = "compose" =>
        /\ Len(trees) = 1
        /\ trees[1].root = IF env \in { <<>>, << <<>> >> } THEN <<".">> ELSE env[1]

\* The pane was composed with HOME set to the empty string.
C7_Witness ==
    /\ last.op = "compose"
    /\ env = << <<>> >>
    /\ Len(trees) = 1
    /\ trees[1].root = <<".">>

\* C8: once composed, the pane holds no tree or one tree, under every
\* interleaving of chdir calls, and holds none only while a chdir is in
\* progress.
C8_AbsentOrMounted ==
    composed =>
        /\ Len(trees) \in {0, 1}
        /\ Len(trees) = 0 => \E c \in Slots : InProgress(c)

\* A second chdir started while the first was suspended between its remove
\* and its mount.
C8_Witness ==
    /\ last.op = "chdir"
    /\ last.overlap
    /\ Len(trees) = 0
    /\ \E c \in Slots : calls[c].pc = "awaitRemove"

\* C9: chdir(p) or set_focus_within called while no tree is mounted fails at
\* the lookup: no coroutine is left to mount a tree for p, no focus changes,
\* and the mounted trees stay as they were.
C9_AbsentCallFails ==
    [][(last'.op \in {"chdir", "focus"} /\ composed /\ Len(trees) = 0) =>
          /\ ~last'.ok
          /\ trees' = trees
          /\ nextId' = nextId
          /\ focused' = focused
          /\ \A c \in Slots : calls'[c].pc = calls[c].pc]_vars

\* chdir(/docs) was called in the gap of another chdir and failed.
C9_Witness ==
    /\ last.op = "chdir"
    /\ ~last.ok
    /\ last.path = <<"/", "docs">>
    /\ Len(trees) = 0
    /\ Cardinality({c \in Slots : InProgress(c)}) = 1

\* C10: the Goto messages are those of the file selections handled, one for
\* one and path for path; no other operation posts a Goto; a file selection
\* leaves the mounted trees and their roots alone.
C10_GotoOnlyFromSelection ==
    /\ [](/\ Len(posted) = Len(events)
          /\ \A i \in 1..Len(posted) : posted[i].location = events[i].path)
    /\ [][/\ posted' # posted => (last'.op = "selected" /\ events' # events)
          /\ events' # events => trees' = trees]_vars

\* Two different files were selected, with a chdir and a focus in the run.
C10_Witness ==
    /\ Len(posted) = 2
    /\ posted[1] # posted[2]
    /\ removed # {}
    /\ focused # 0
    /\ last.op = "chdir_done"

====
